---------------------------- MODULE Spec2Model ----------------------------
(***************************************************************************)
(* Model of compileengine/engine.py: the two-phase compile of a            *)
(* script-emitting routine (Engine.compile, Engine._find_branches,         *)
(* Engine.branch, Engine.call, Engine.loop, Engine.push, Engine.pop) and    *)
(* the block graph it builds (EngineBlock, EngineBlock.__eq__).             *)
(*                                                                         *)
(* The engine is a StringIO: its text is the variable buf.  Every use of   *)
(* truncate(0) is followed by seek(0) and every write appends, so the      *)
(* stream position is always Len(buf).                                     *)
(*                                                                         *)
(* Blocks are objects; a block is identified by its index in self.blocks   *)
(* (compile and push append every block they create to that list and       *)
(* nothing removes one).  0 stands for None.                               *)
(*                                                                         *)
(* Path elements and DecisionContext tokens are strings: "T" and "F" are   *)
(* Python's True and False, "NB" is the class NewBranch, any other string  *)
(* is the identity of the routine handed to Engine.call.                   *)
(***************************************************************************)
EXTENDS Integers, Sequences, FiniteSets, TLC

\* Number of compile calls made on the one engine instance.
MaxCompiles == 2

pointer_size == 4
STATE_IDLE == 0
STATE_BUILDING_BRANCHES == 1
STATE_COMPILING == 2

-----------------------------------------------------------------------------
(* The caller's routines.  A routine is Python code that drives the engine;  *)
(* it is represented by its instruction list.  CodeOf maps the name of a     *)
(* routine, or of the body of one arm of an if statement, to its list.       *)

\* engine.write_value(v, n)
W(v, n) == [op |-> "write", v |-> v, n |-> n, t |-> "", f |-> ""]
\* engine.unknown(v, n)
U(v, n) == [op |-> "unknown", v |-> v, n |-> n, t |-> "", f |-> ""]
\* if engine.branch(cond): <t> else: <f>
Br(t, f) == [op |-> "branch", v |-> 0, n |-> 0, t |-> t, f |-> f]
\* engine.call(t)
Ca(t) == [op |-> "call", v |-> 0, n |-> 0, t |-> t, f |-> ""]
\* engine.loop(cond)
Lo == [op |-> "loop", v |-> 0, n |-> 0, t |-> "", f |-> ""]
\* if engine.state == engine.STATE_COMPILING: <t>
IfC(t) == [op |-> "ifcompiling", v |-> 0, n |-> 0, t |-> t, f |-> ""]

CodeOf(name) ==
  CASE name = "r_zero"    -> << W(7, 1), U(258, 2) >>
    [] name = "r_one"     -> << Br("one_t", "one_f") >>
    [] name = "one_t"     -> << U(1, 1) >>
    [] name = "one_f"     -> << U(2, 1) >>
    [] name = "r_two"     -> << W(3, 1), Br("a_t", "a_f"), Br("one_t", "one_f") >>
    [] name = "a_t"       -> << W(4, 1) >>
    [] name = "a_f"       -> << W(5, 1) >>
    [] name = "r_nest"    -> << Br("n_t", "n_f") >>
    [] name = "n_t"       -> << Br("one_t", "one_f") >>
    [] name = "n_f"       -> << W(0, 4), W(0, 4) >>
    [] name = "r_call2"   -> << Ca("s_leaf"), W(9, 1), Ca("s_leaf") >>
    [] name = "s_leaf"    -> << U(5, 1) >>
    [] name = "r_callctx" -> << Br("cc_t", "cc_f") >>
    [] name = "cc_t"      -> << Ca("s_leaf") >>
    [] name = "cc_f"      -> << W(6, 1), Ca("s_leaf") >>
    [] name = "s_br"      -> << Br("one_t", "one_f") >>
    [] name = "r_lost"    -> << Ca("s_br"), Br("a_t", "a_f") >>
    [] name = "r_loop"    -> << Lo >>
    [] name = "r_wloop"   -> << W(1, 1), Lo >>
    [] name = "r_brloop"  -> << Br("bl_t", "one_f") >>
    [] name = "bl_t"      -> << Lo >>
    [] name = "r_div"     -> << W(1, 1), IfC("s_br") >>
    [] name = "r_div2"    -> << Br("one_t", "dv_f") >>
    [] name = "dv_f"      -> << IfC("s_br") >>
    [] name = "r_lost2"   -> << Ca("s_brc"), Br("a_t", "a_f") >>
    [] name = "s_brc"     -> << Br("cc_t", "one_f") >>
    [] OTHER              -> << >>

\* The routines handed to Engine.compile.
Routines ==
  { "r_zero", "r_one", "r_two", "r_nest", "r_call2", "r_callctx", "r_lost",
    "r_loop", "r_wloop", "r_brloop", "r_div", "r_div2", "r_lost2" }

-----------------------------------------------------------------------------
VARIABLES
  state,          \* self.state
  buf,            \* the StringIO text, self.getvalue()
  stack,          \* self.stack: the open blocks below the current one
  current_block,  \* self.current_block
  state_blocks,   \* self.state_blocks: set of <<tuple(path_stack), block>>
  path_stack,     \* self.path_stack: the DecisionContext
  blocks,         \* self.blocks: the block objects, in order of creation
  paths,          \* self.paths
  path_id,        \* self.path_id
  current_path,   \* self.current_path
  branch_id,      \* self.branch_id
  pc,             \* where the engine is: "idle", "find", "run", "replay"
  func,           \* the routine compile was called with
  frames,         \* the routine's own call stack while it runs
  it,             \* position of `for path in self.paths` in compile
  script_block,   \* compile's local script_block
  outcome,        \* how the last compile call exited
  ret,            \* the block the last compile call returned (0: none)
  ncalls,         \* number of compile calls made so far
  replayed,       \* the paths func was executed with in phase 2 of this call
  served,         \* number of decisions Engine.branch returned in this run of func
  calllog,        \* the links Engine.call made in phase 2 of this compile call
  brlog,          \* the links Engine.branch made in phase 2 of this compile call
  callers,        \* per running Engine.call of phase 2: what held when it was invoked
  failures,       \* number of compile calls on this engine that exited by an exception
  explored        \* the paths func was executed with in discovery of this call

vars ==
  << state, buf, stack, current_block, state_blocks, path_stack, blocks, paths,
     path_id, current_path, branch_id, pc, func, frames, it, script_block,
     outcome, ret, ncalls, replayed, served, calllog, brlog, callers,
     failures, explored >>


-----------------------------------------------------------------------------
(* Values and pure helpers.                                                  *)

Front(s) == SubSeq(s, 1, Len(s) - 1)
Last(s) == s[Len(s)]

\* EngineBlock.__init__: buff is None (hasbuff FALSE), jumps is {}.
\* The offset field is only ever written by the external linker.
NewBlock == [hasbuff |-> FALSE, buff |-> << >>, jumps |-> [o \in {} |-> 0]]

\* d[k] = v on a dict
DictSet(d, k, v) == [o \in DOMAIN d \cup {k} |-> IF o = k THEN v ELSE d[o]]

\* Engine.write_value builds `size` characters, least significant first.
WriteValue(value, size) ==
  [i \in 1..size |-> (value \div (256 ^ (i - 1))) % 256]

\* Python orders False < True.
Rank(x) == IF x = "T" THEN 1 ELSE 0

\* Python's tuple comparison a < b.
RECURSIVE TupleLess(_, _)
TupleLess(a, b) ==
  IF a = << >> THEN b # << >>
  ELSE IF b = << >> THEN FALSE
  ELSE IF Head(a) = Head(b) THEN TupleLess(Tail(a), Tail(b))
  ELSE Rank(Head(a)) < Rank(Head(b))

\* index of the first greatest element of a non-empty list of tuples
RECURSIVE ArgMax(_, _, _)
ArgMax(s, i, best) ==
  IF i > Len(s) THEN best
  ELSE ArgMax(s, i + 1, IF TupleLess(s[best], s[i]) THEN i ELSE best)

RemoveAt(s, i) == SubSeq(s, 1, i - 1) \o SubSeq(s, i + 1, Len(s))

\* the list left as it is
SortOmitted(s) == s

\* list.sort(reverse=True): the greatest element first, then the rest sorted.
\* Sorted is a function so that each list is evaluated once.
Sorted[s \in Seq(Seq({ "T", "F", "NB" }))] ==
  IF s = << >> THEN << >>
  ELSE LET i == ArgMax(s, 2, 1) IN << s[i] >> \o Sorted[RemoveAt(s, i)]

SortReverse(s) == Sorted[s]

\* no path filtered out
KeepAll(p) == TRUE

\* path[-1:] != (NewBranch, )
NotEscaped(p) == ~(Len(p) > 0 /\ Last(p) = "NB")

\* The last two statements of Engine._find_branches.
TerminalPaths(ps) == SortReverse(SelectSeq(ps, NotEscaped))

-----------------------------------------------------------------------------
(* The buffer, the open-block stack and the block store, as one value, so    *)
(* that push and pop compose.                                                *)

Eng ==
  [ buf |-> buf, stack |-> stack, cur |-> current_block, sb |-> state_blocks,
    ps |-> path_stack, blocks |-> blocks ]

SetEng(e) ==
  /\ buf' = e.buf
  /\ stack' = e.stack
  /\ current_block' = e.cur
  /\ state_blocks' = e.sb
  /\ path_stack' = e.ps
  /\ blocks' = e.blocks

SetBuff(bs, b, content) ==
  [bs EXCEPT ![b] = [@ EXCEPT !.hasbuff = TRUE, !.buff = content]]

\* Engine.write
Write(e, bytes) == [e EXCEPT !.buf = @ \o bytes]

\* push allocating a block every time, without looking into state_blocks
PushNoReuse(e, tok) ==
  LET block == e.cur
      bs1 == SetBuff(e.blocks, block, e.buf)
      key == Append(e.ps, tok)
  IN [e EXCEPT !.blocks = Append(bs1, NewBlock), !.buf = << >>,
               !.stack = Append(@, block), !.ps = key,
               !.cur = Len(bs1) + 1,
               !.sb = { kv \in @ : kv[1] # key } \cup { << key, Len(bs1) + 1 >> }]

\* push looking a block up by the pushed token alone, not by the context
PushByToken(e, tok) ==
  LET block == e.cur
      bs1 == SetBuff(e.blocks, block, e.buf)
      hit == { kv \in e.sb : kv[1] = << tok >> }
  IN IF hit # {}
       THEN [e EXCEPT !.blocks = bs1, !.buf = << >>,
                      !.stack = Append(@, block), !.ps = Append(@, tok),
                      !.cur = (CHOOSE kv \in hit : TRUE)[2]]
       ELSE [e EXCEPT !.blocks = Append(bs1, NewBlock), !.buf = << >>,
                      !.stack = Append(@, block), !.ps = Append(@, tok),
                      !.cur = Len(bs1) + 1,
                      !.sb = @ \cup { << << tok >>, Len(bs1) + 1 >> }]

\* Engine.push(state); state is never None in this module's callers.
Push(e, tok) ==
  LET block == e.cur
      bs1 == SetBuff(e.blocks, block, e.buf)
      key == Append(e.ps, tok)
      hit == { kv \in e.sb : kv[1] = key }
  IN IF hit # {}
       THEN [e EXCEPT !.blocks = bs1, !.buf = << >>,
                      !.stack = Append(@, block), !.ps = key,
                      !.cur = (CHOOSE kv \in hit : TRUE)[2]]
       ELSE [e EXCEPT !.blocks = Append(bs1, NewBlock), !.buf = << >>,
                      !.stack = Append(@, block), !.ps = key,
                      !.cur = Len(bs1) + 1,
                      !.sb = @ \cup { << key, Len(bs1) + 1 >> }]

\* Engine.pop
Pop(e) ==
  LET bs1 == SetBuff(e.blocks, e.cur, e.buf)
      block == Last(e.stack)
  IN [e EXCEPT !.blocks = bs1, !.stack = Front(@), !.ps = Front(@),
               !.cur = block, !.buf = bs1[block].buff]

\* one pop where compile has a loop
PopOnce(e) == IF e.stack = << >> THEN e ELSE Pop(e)

\* while self.stack: self.pop()
RECURSIVE PopAll(_)
PopAll(e) == IF e.stack = << >> THEN e ELSE PopAll(Pop(e))

\* Engine.write_branch and Engine.write_jump both write one zero pointer.
WritePointer(e) == Write(e, WriteValue(0, pointer_size))

\* the link made in both directions
SetJumpBack(e, block, ofs, target) ==
  [e EXCEPT !.blocks[block].jumps = DictSet(@, ofs, target),
            !.blocks[target].jumps = DictSet(@, ofs, block)]

\* block.jumps[ofs] = target
SetJump(e, block, ofs, target) ==
  [e EXCEPT !.blocks[block].jumps = DictSet(@, ofs, target)]

\* EngineBlock.__eq__(self, other) on the blocks bs, self and other being the
\* blocks a and b; EqFrom is its while loop from idx on.  __ne__ is its
\* negation.  Called only on blocks whose buff is set.
RECURSIVE BlockEq(_, _, _)
RECURSIVE EqFrom(_, _, _, _)
BlockEq(bs, a, b) ==
  IF a = b THEN TRUE
  ELSE IF Len(bs[a].buff) # Len(bs[b].buff) THEN FALSE
  ELSE EqFrom(bs, a, b, 0)

EqFrom(bs, a, b, idx) ==
  IF ~(idx < Len(bs[a].buff)) THEN TRUE
  ELSE IF idx \in DOMAIN bs[a].jumps
    THEN IF idx \notin DOMAIN bs[b].jumps THEN FALSE
         ELSE IF ~BlockEq(bs, bs[a].jumps[idx], bs[b].jumps[idx]) THEN FALSE
         ELSE EqFrom(bs, a, b, idx + pointer_size)
  ELSE IF bs[a].buff[idx + 1] # bs[b].buff[idx + 1] THEN FALSE
  ELSE EqFrom(bs, a, b, idx + 1)

\* branch linking both slots to the opened block
BranchLinkBoth(e, value) ==
  LET old_block == e.cur
      true_ofs == Len(e.buf)
      e1 == WritePointer(e)
      false_ofs == Len(e1.buf)
      e2 == WritePointer(e1)
      e3 == Push(e2, value)
  IN SetJump(SetJump(e3, old_block, true_ofs, e3.cur),
             old_block, false_ofs, e3.cur)

\* Engine.branch, the part run when self.state == STATE_COMPILING.
BranchCompile(e, value) ==
  LET old_block == e.cur
      true_ofs == Len(e.buf)
      e1 == WritePointer(e)
      false_ofs == Len(e1.buf)
      e2 == WritePointer(e1)
      e3 == Push(e2, value)
  IN IF value = "T" THEN SetJump(e3, old_block, true_ofs, e3.cur)
     ELSE IF value = "F" THEN SetJump(e3, old_block, false_ofs, e3.cur)
     ELSE e3

\* Engine.call, the part before new_func runs, when compiling.
CallEnter(e, new_func) ==
  LET block == e.cur
      e1 == WritePointer(e)
      ofs == Len(e1.buf) - pointer_size
      e2 == Push(e1, new_func)
  IN SetJump(e2, block, ofs, e2.cur)

\* Engine.call, the part after new_func returned, when compiling.
CallExit(e) == Pop(e)

\* Engine.compile, after func returned in the for loop.
EndOfPath(e) ==
  PopAll([e EXCEPT !.blocks = SetBuff(@, e.cur, e.buf)])

-----------------------------------------------------------------------------
(* The routine's own control.                                                *)

Frame(code, kind) == [code |-> code, pc |-> 1, kind |-> kind]
Finished(fr) == fr.pc > Len(CodeOf(fr.code))

\* leave the bodies of if statements that have run to their end
RECURSIVE Norm(_)
Norm(fs) ==
  IF fs # << >> /\ Last(fs).kind = "inline" /\ Finished(Last(fs))
    THEN Norm(Front(fs))
    ELSE fs

Advance(fs) == [fs EXCEPT ![Len(fs)].pc = @ + 1]
Start(R) == Norm(<< Frame(R, "main") >>)

\* What phase 2 did, kept for the properties: the bytes the routine wrote
\* right after a decision was served, while the block opened for it was current.
CloseLog(l) == IF l = << >> THEN l ELSE [l EXCEPT ![Len(l)].open = FALSE]
LogBytes(l, bytes) ==
  IF l # << >> /\ Last(l).open THEN [l EXCEPT ![Len(l)].bytes = @ \o bytes]
  ELSE l

Running == pc = "run" /\ frames # << >> /\ ~Finished(Last(frames))
Instr == CodeOf(Last(frames).code)[Last(frames).pc]

-----------------------------------------------------------------------------
(* Engine.__init__                                                           *)
Init ==
  /\ state = STATE_IDLE
  /\ buf = << >>
  /\ stack = << >>
  /\ current_block = 0
  /\ state_blocks = {}
  /\ path_stack = << >>
  /\ blocks = << >>
  /\ paths = << >>
  /\ path_id = 0
  /\ current_path = << >>
  /\ branch_id = 0
  /\ pc = "idle"
  /\ func = ""
  /\ frames = << >>
  /\ it = 0
  /\ script_block = 0
  /\ outcome = "none"
  /\ ret = 0
  /\ ncalls = 0
  /\ replayed = << >>
  /\ served = 0
  /\ calllog = {}
  /\ brlog = << >>
  /\ callers = << >>
  /\ failures = 0
  /\ explored = << >>

\* compile without its finally clause
RaiseNoFinally(exc) ==
  /\ state' = state
  /\ outcome' = exc
  /\ pc' = "idle"
  /\ frames' = << >>
  /\ callers' = << >>
  /\ failures' = failures + 1
  /\ explored' = explored

\* compile catching the exception and going on with the next path
RaiseSwallowed(exc) ==
  /\ state' = state
  /\ outcome' = outcome
  /\ pc' = IF state = STATE_COMPILING THEN "replay" ELSE "idle"
  /\ frames' = << >>
  /\ callers' = << >>
  /\ failures' = failures
  /\ explored' = explored

\* An exception leaves compile through its finally clause.
Raise(exc) ==
  /\ state' = STATE_IDLE
  /\ outcome' = exc
  /\ pc' = "idle"
  /\ frames' = << >>
  /\ callers' = << >>
  /\ failures' = failures + 1
  /\ explored' = explored

\* Engine.compile is called with routine R: up to the first test of the
\* while loop of _find_branches.
Compile(R) ==
  /\ pc = "idle"
  /\ ncalls < MaxCompiles
  /\ state' = STATE_BUILDING_BRANCHES
  /\ paths' = << << >> >>
  /\ path_id' = 0
  /\ func' = R
  /\ pc' = "find"
  /\ outcome' = "none"
  /\ ret' = 0
  /\ ncalls' = ncalls + 1
  /\ replayed' = << >>
  /\ calllog' = {}
  /\ brlog' = << >>
  /\ script_block' = 0
  /\ UNCHANGED << buf, stack, current_block, state_blocks, path_stack, blocks,
                  current_path, branch_id, frames, it, served, callers,
                  failures >>
  /\ explored' = << >>

\* _find_branches: the while test holds, func is entered with the next path.
FindRun ==
  /\ pc = "find"
  /\ path_id < Len(paths)
  /\ current_path' = paths[path_id + 1]
  /\ branch_id' = 0
  /\ frames' = Start(func)
  /\ served' = 0
  /\ pc' = "run"
  /\ callers' = << >>
  /\ explored' = Append(explored, paths[path_id + 1])
  /\ UNCHANGED << state, buf, stack, current_block, state_blocks, path_stack,
                  blocks, paths, path_id, func, it, script_block, outcome, ret,
                  ncalls, failures, replayed,
                  calllog, brlog >>

\* _find_branches: the while test fails; the paths are filtered and sorted
\* and compile goes on to create the root block.
FindDone ==
  /\ pc = "find"
  /\ ~(path_id < Len(paths))
  /\ paths' = TerminalPaths(paths)
  /\ state' = STATE_COMPILING
  /\ state_blocks' = {}
  /\ blocks' = Append(blocks, NewBlock)
  /\ current_block' = Len(blocks) + 1
  /\ script_block' = Len(blocks) + 1
  /\ it' = 0
  /\ pc' = "replay"
  /\ UNCHANGED << buf, stack, path_stack, path_id, current_path, branch_id,
                  func, frames, outcome, ret, ncalls, failures, explored, callers, replayed, served,
                  calllog, brlog >>

\* compile: the for loop takes the next path and enters func.
ReplayRun ==
  /\ pc = "replay"
  /\ it < Len(paths)
  /\ buf' = << >>
  /\ branch_id' = 0
  /\ current_path' = paths[it + 1]
  /\ it' = it + 1
  /\ frames' = Start(func)
  /\ served' = 0
  /\ replayed' = Append(replayed, paths[it + 1])
  /\ pc' = "run"
  /\ callers' = << >>
  /\ UNCHANGED << state, stack, current_block, state_blocks, path_stack,
                  blocks, paths, path_id, func, script_block, outcome, ret,
                  ncalls, failures, explored,
                  calllog, brlog >>

\* compile: the for loop is exhausted; return script_block, then finally.
ReplayDone ==
  /\ pc = "replay"
  /\ ~(it < Len(paths))
  /\ ret' = script_block
  /\ outcome' = "returned"
  /\ state' = STATE_IDLE
  /\ pc' = "idle"
  /\ UNCHANGED << buf, stack, current_block, state_blocks, path_stack, blocks,
                  paths, path_id, current_path, branch_id, func, frames, it,
                  script_block, ncalls, failures, explored, callers, replayed, served,
                  calllog, brlog >>

\* func calls engine.write_value(v, n).
RWrite ==
  /\ Running
  /\ Instr.op = "write"
  /\ buf' = buf \o WriteValue(Instr.v, Instr.n)
  /\ frames' = Norm(Advance(frames))
  /\ brlog' = IF state = STATE_COMPILING
                THEN LogBytes(brlog, WriteValue(Instr.v, Instr.n)) ELSE brlog
  /\ UNCHANGED << state, stack, current_block, state_blocks, path_stack,
                  blocks, paths, path_id, current_path, branch_id, pc, func,
                  it, script_block, outcome, ret, ncalls, failures, explored, callers, replayed, served,
                  calllog >>

\* func calls engine.unknown(v, n).
RUnknown ==
  /\ Running
  /\ Instr.op = "unknown"
  /\ buf' = IF state = STATE_COMPILING
              THEN buf \o WriteValue(Instr.v, Instr.n) ELSE buf
  /\ frames' = Norm(Advance(frames))
  /\ brlog' = IF state = STATE_COMPILING
                THEN LogBytes(brlog, WriteValue(Instr.v, Instr.n)) ELSE brlog
  /\ UNCHANGED << state, stack, current_block, state_blocks, path_stack,
                  blocks, paths, path_id, current_path, branch_id, pc, func,
                  it, script_block, outcome, ret, ncalls, failures, explored, callers, replayed, served,
                  calllog >>

\* func reads engine.state to decide whether to run a piece of its code.
RTestState ==
  /\ Running
  /\ Instr.op = "ifcompiling"
  /\ frames' = IF state = STATE_COMPILING
                 THEN Norm(Append(Advance(frames), Frame(Instr.t, "inline")))
                 ELSE Norm(Advance(frames))
  /\ UNCHANGED << state, buf, stack, current_block, state_blocks, path_stack,
                  blocks, paths, path_id, current_path, branch_id, pc, func,
                  it, script_block, outcome, ret, ncalls, failures, explored, callers, replayed, served,
                  calllog, brlog >>

\* func calls engine.branch and current_path holds a decision for it.
BranchServe ==
  /\ Running
  /\ Instr.op = "branch"
  /\ branch_id < Len(current_path)
  /\ LET value == current_path[branch_id + 1]
     IN /\ branch_id' = branch_id + 1
        /\ SetEng(IF state = STATE_COMPILING
                    THEN BranchCompile(Eng, value) ELSE Eng)
        /\ frames' = Norm(Append(Advance(frames),
                       Frame(IF value = "T" THEN Instr.t ELSE Instr.f, "inline")))
  /\ served' = served + 1
  /\ brlog' = IF state = STATE_COMPILING
                THEN Append(CloseLog(brlog),
                       [ run |-> it, owner |-> current_block, ofs |-> Len(buf),
                         value |-> current_path[branch_id + 1],
                         target |-> current_block', bytes |-> << >>,
                         open |-> TRUE ])
                ELSE brlog
  /\ UNCHANGED << state, paths, path_id, current_path, pc, func, it,
                  script_block, outcome, ret, ncalls, failures, explored, callers, replayed, calllog >>

\* only the true continuation enqueued
BranchPathsOne == Append(paths, current_path \o << "T" >>)

\* func calls engine.branch beyond current_path (IndexError).
BranchPaths == paths \o << current_path \o << "T" >>, current_path \o << "F" >>>>

\* ... during _find_branches, which catches NewBranch and goes to the next path.
BranchEscapeDiscover ==
  /\ Running
  /\ Instr.op = "branch"
  /\ ~(branch_id < Len(current_path))
  /\ state = STATE_BUILDING_BRANCHES
  /\ paths' = [BranchPaths EXCEPT ![path_id + 1] = current_path \o << "NB" >>]
  /\ path_id' = path_id + 1
  /\ frames' = << >>
  /\ pc' = "find"
  /\ UNCHANGED << state, buf, stack, current_block, state_blocks, path_stack,
                  blocks, current_path, branch_id, func, it, script_block,
                  outcome, ret, ncalls, failures, explored, callers, replayed, served,
                  calllog, brlog >>

\* ... during the for loop of compile, where nothing catches NewBranch.
BranchEscapeCompile ==
  /\ Running
  /\ Instr.op = "branch"
  /\ ~(branch_id < Len(current_path))
  /\ state = STATE_COMPILING
  /\ paths' = BranchPaths
  /\ Raise("NewBranch")
  /\ UNCHANGED << buf, stack, current_block, state_blocks, path_stack, blocks,
                  path_id, current_path, branch_id, func, it, script_block,
                  ret, ncalls, replayed, served,
                  calllog, brlog >>

\* func calls engine.loop.
RLoop ==
  /\ Running
  /\ Instr.op = "loop"
  /\ Raise("NotImplementedError")
  /\ UNCHANGED << buf, stack, current_block, state_blocks, path_stack, blocks,
                  paths, path_id, current_path, branch_id, func, it,
                  script_block, ret, ncalls, replayed, served,
                  calllog, brlog >>

\* func calls engine.call(new_func): up to the entry of new_func.
RCall ==
  /\ Running
  /\ Instr.op = "call"
  /\ SetEng(IF state = STATE_COMPILING THEN CallEnter(Eng, Instr.t) ELSE Eng)
  /\ frames' = Append(Advance(frames), Frame(Instr.t, "call"))
  /\ calllog' = IF state = STATE_COMPILING
                  THEN calllog \cup
                         { [ sub |-> Instr.t, ctx |-> path_stack,
                             owner |-> current_block, ofs |-> Len(buf),
                             target |-> current_block' ] }
                  ELSE calllog
  /\ brlog' = IF state = STATE_COMPILING THEN CloseLog(brlog) ELSE brlog
  /\ callers' = IF state = STATE_COMPILING
                  THEN Append(callers, [ block |-> current_block,
                                         depth |-> Len(stack),
                                         ctx |-> Len(path_stack) ])
                  ELSE callers
  /\ UNCHANGED << state, paths, path_id, current_path, branch_id, pc, func,
                  it, script_block, outcome, ret, ncalls, failures, explored, replayed, served >>

\* new_func returned to engine.call, which returns to its caller.
RCallReturn ==
  /\ pc = "run"
  /\ frames # << >>
  /\ Last(frames).kind = "call"
  /\ Finished(Last(frames))
  /\ SetEng(IF state = STATE_COMPILING THEN CallExit(Eng) ELSE Eng)
  /\ frames' = Norm(Front(frames))
  /\ brlog' = IF state = STATE_COMPILING THEN CloseLog(brlog) ELSE brlog
  /\ callers' = IF state = STATE_COMPILING THEN Front(callers) ELSE callers
  /\ UNCHANGED << state, paths, path_id, current_path, branch_id, pc, func,
                  it, script_block, outcome, ret, ncalls, failures, explored, replayed, served,
                  calllog >>

AtReturn ==
  pc = "run" /\ frames # << >> /\ Last(frames).kind = "main"
  /\ Finished(Last(frames))

\* func returned to _find_branches.
DiscoverReturn ==
  /\ AtReturn
  /\ state = STATE_BUILDING_BRANCHES
  /\ path_id' = path_id + 1
  /\ frames' = << >>
  /\ pc' = "find"
  /\ UNCHANGED << state, buf, stack, current_block, state_blocks, path_stack,
                  blocks, paths, current_path, branch_id, func, it,
                  script_block, outcome, ret, ncalls, failures, explored, callers, replayed, served,
                  calllog, brlog >>

\* func returned to compile: the rest of the body of the for loop.
ReplayReturn ==
  /\ AtReturn
  /\ state = STATE_COMPILING
  /\ SetEng(EndOfPath(Eng))
  /\ frames' = << >>
  /\ pc' = "replay"
  /\ brlog' = CloseLog(brlog)
  /\ UNCHANGED << state, paths, path_id, current_path, branch_id, func, it,
                  script_block, outcome, ret, ncalls, failures, explored, callers, replayed, served,
                  calllog >>

Next ==
  \/ \E R \in Routines : Compile(R)
  \/ FindRun
  \/ FindDone
  \/ ReplayRun
  \/ ReplayDone
  \/ RWrite
  \/ RUnknown
  \/ RTestState
  \/ BranchServe
  \/ BranchEscapeDiscover
  \/ BranchEscapeCompile
  \/ RLoop
  \/ RCall
  \/ RCallReturn
  \/ DiscoverReturn
  \/ ReplayReturn

Spec == Init /\ [][Next]_vars

-----------------------------------------------------------------------------
(* What a routine is, read off its code alone.                               *)

\* the instructions of a piece of code and of everything it runs
RECURSIVE OpsOf(_)
OpsOf(name) ==
  LET code == CodeOf(name)
      here == { code[i] : i \in 1..Len(code) }
      used == { x.t : x \in { y \in here : y.t # "" } }
                \cup { x.f : x \in { y \in here : y.f # "" } }
  IN here \cup UNION { OpsOf(n) : n \in used }

\* The routine does the same thing whenever it is given the same decisions.
Deterministic(R) == \A x \in OpsOf(R) : x.op # "ifcompiling"
NoLoop(R) == \A x \in OpsOf(R) : x.op # "loop"

\* the numbers of branch calls the executions of an instruction list can make
RECURSIVE BranchCounts(_, _)
BranchCounts(code, i) ==
  IF i > Len(code) THEN {0}
  ELSE LET rest == BranchCounts(code, i + 1)
           x == code[i]
           first == CASE x.op = "branch" ->
                           { 1 + n : n \in BranchCounts(CodeOf(x.t), 1)
                                       \cup BranchCounts(CodeOf(x.f), 1) }
                      [] x.op = "call" -> BranchCounts(CodeOf(x.t), 1)
                      [] OTHER -> {0}
       IN { a + b : a \in first, b \in rest }

\* R calls branch exactly k times on every execution.
ExactlyK(R, k) ==
  Deterministic(R) /\ NoLoop(R) /\ BranchCounts(CodeOf(R), 1) = {k}

Range(s) == { s[i] : i \in 1..Len(s) }

\* a comes before b in reverse lexicographic order with true > false:
\* at the first place where they differ a has true, or b ends there.
Before(a, b) ==
  \E i \in 1..Len(a) :
     /\ \A j \in 1..(i - 1) : j <= Len(b) /\ a[j] = b[j]
     /\ \/ i > Len(b)
        \/ (a[i] = "T" /\ b[i] = "F")

-----------------------------------------------------------------------------
(* C1: whenever a compile call has exited, by returning the root block or    *)
(* by propagating a failure raised in discovery or in compiling, the         *)
(* engine's run state is Idle.                                               *)
C1_IdleOnExit ==
  pc = "idle" =>
     /\ state = STATE_IDLE
     /\ ncalls > 0 => outcome \in { "returned", "NewBranch", "NotImplementedError" }

\* a compile call has exited by a failure raised in phase 2
C1_Witness ==
  pc = "idle" /\ outcome = "NewBranch" /\ blocks # << >> /\ state = STATE_IDLE

(* C3: for a routine that calls branch exactly k times on every execution,   *)
(* discovery ends with exactly 2^k terminal paths, each a distinct boolean   *)
(* sequence of length k, none carrying the escape marker; for k = 0 the      *)
(* terminal set is one empty path.                                           *)
C3_TwoToTheK ==
  (pc = "replay" /\ it = 0) =>
     \A k \in BranchCounts(CodeOf(func), 1) :
        ExactlyK(func, k) =>
           /\ Len(paths) = 2 ^ k
           /\ \A i \in 1..Len(paths) :
                 /\ Len(paths[i]) = k
                 /\ \A j \in 1..k : paths[i][j] \in { "T", "F" }
           /\ \A i, j \in 1..Len(paths) : i # j => paths[i] # paths[j]
           /\ k = 0 => paths = << << >> >>

\* discovery has ended for a routine with two branch calls on every execution
C3_Witness ==
  pc = "replay" /\ it = 0 /\ ExactlyK(func, 2) /\ Len(paths) = 4

(* C4: phase 2 replays the terminal paths in reverse lexicographic order of  *)
(* their decision sequences with true > false ((true,) before (false,) for   *)
(* a single branch point), and executes the routine once per terminal path.  *)
C4_ReplayOrder ==
  /\ state = STATE_COMPILING =>
        /\ \A i, j \in 1..Len(replayed) : i < j => Before(replayed[i], replayed[j])
        /\ Range(replayed) \subseteq Range(paths)
  /\ (pc = "idle" /\ outcome = "returned") =>
        /\ Range(replayed) = { p \in Range(paths) : NotEscaped(p) }
        /\ \A i, j \in 1..Len(replayed) : i < j => Before(replayed[i], replayed[j])
        /\ func = "r_one" => replayed = << << "T" >>, << "F" >> >>

\* compile returned after replaying paths of different lengths
C4_Witness ==
  /\ pc = "idle" /\ outcome = "returned"
  /\ Len(replayed) = 3
  /\ \E i, j \in 1..3 : Len(replayed[i]) # Len(replayed[j])

-----------------------------------------------------------------------------
(* The block graph as the properties read it.                                *)

Returned == pc = "idle" /\ outcome = "returned"

\* the blocks reachable from b along jumps, b included
RECURSIVE Reach(_, _, _)
Reach(bs, seen, todo) ==
  IF todo = {} THEN seen
  ELSE LET b == CHOOSE x \in todo : TRUE
           nxt == { bs[b].jumps[o] : o \in DOMAIN bs[b].jumps }
       IN Reach(bs, seen \cup {b}, (todo \cup nxt) \ (seen \cup {b}))

\* b and every block reachable from it has its content set
Closed(bs, b) == \A x \in Reach(bs, {}, {b}) : bs[x].hasbuff

\* the placeholder regions of a block: the slots its jump map links
Slots(blk) == { o \in DOMAIN blk.jumps : o < Len(blk.buff) }
InSlot(slots, i) == \E o \in slots : o <= i /\ i < o + pointer_size

\* the content of a block with its placeholder slots removed
RECURSIVE StripFrom(_, _)
StripFrom(blk, i) ==
  IF i >= Len(blk.buff) THEN << >>
  ELSE (IF InSlot(Slots(blk), i) THEN << >> ELSE << blk.buff[i + 1] >>)
         \o StripFrom(blk, i + 1)
Strip(blk) == StripFrom(blk, 0)

RECURSIVE Flatten(_)
Flatten(ss) == IF ss = << >> THEN << >> ELSE Head(ss) \o Flatten(Tail(ss))

\* The bytes a routine writes (through write_value or unknown) when its i-th
\* branch call returns p[i], read off its code; subs tells whether the bytes
\* written inside the subroutines it runs through Engine.call are counted.
RECURSIVE Writes(_, _, _, _)
Writes(fs, p, i, subs) ==
  IF fs = << >> THEN << >>
  ELSE IF Finished(Last(fs)) THEN Writes(Front(fs), p, i, subs)
  ELSE LET x == CodeOf(Last(fs).code)[Last(fs).pc]
           own == \A j \in 1..Len(fs) : fs[j].kind # "call"
           adv == Advance(fs)
       IN CASE x.op \in { "write", "unknown" } ->
                 (IF own \/ subs THEN WriteValue(x.v, x.n) ELSE << >>)
                   \o Writes(adv, p, i, subs)
            [] x.op = "branch" ->
                 IF i < Len(p)
                   THEN Writes(Append(adv,
                          Frame(IF p[i + 1] = "T" THEN x.t ELSE x.f, "inline")),
                          p, i + 1, subs)
                   ELSE << >>
            [] x.op = "call" ->
                 Writes(Append(adv, Frame(x.t, "call")), p, i, subs)
            [] OTHER -> Writes(adv, p, i, subs)

\* the blocks met along the r-th replayed path: the root, then the block
\* linked from the slot of each decision in turn
Chain(r) ==
  << script_block >>
    \o [ k \in 1..Len(SelectSeq(brlog, LAMBDA e : e.run = r)) |->
           SelectSeq(brlog, LAMBDA e : e.run = r)[k].target ]

IsPrefix(a, b) == Len(a) <= Len(b) /\ SubSeq(b, 1, Len(a)) = a

Zeros(n) == [i \in 1..n |-> 0]

\* What the equality of blocks is to be: same length, same bytes outside the
\* placeholder regions, and at every placeholder region both blocks linked
\* to blocks that are equal in the same sense.
RECURSIVE Similar(_, _, _)
Similar(bs, a, b) ==
  LET A == bs[a]
      B == bs[b]
      regions == Slots(A) \cup Slots(B)
  IN /\ Len(A.buff) = Len(B.buff)
     /\ \A i \in 0..(Len(A.buff) - 1) :
           ~InSlot(regions, i) => A.buff[i + 1] = B.buff[i + 1]
     /\ \A o \in regions :
           /\ o \in DOMAIN A.jumps
           /\ o \in DOMAIN B.jumps
           /\ Similar(bs, A.jumps[o], B.jumps[o])

-----------------------------------------------------------------------------
(* C2: for a deterministic routine and every discovered terminal path p,     *)
(* after compile the contents of the blocks met along p (the root, then the  *)
(* block linked from the slot of each decision in turn), concatenated with   *)
(* the placeholder slots removed, are the bytes the routine writes when its  *)
(* i-th branch call returns p[i].  Stated for the first compile call of an   *)
(* engine, and with the bytes of called subroutines counted or not.          *)
C2_ReplayReproduces ==
  (Returned /\ Deterministic(func) /\ ncalls = 1) =>
     \A r \in 1..Len(replayed) :
        Flatten([ k \in 1..Len(Chain(r)) |-> Strip(blocks[Chain(r)[k]]) ])
          \in { Writes(Start(func), replayed[r], 0, TRUE),
                Writes(Start(func), replayed[r], 0, FALSE) }

(* C5: after compile, the block owning a branch point holds two adjacent     *)
(* pointer_size-byte placeholder slots, the first linked to the block that   *)
(* holds the bytes written on the true continuation, the second to a         *)
(* different block that holds the bytes written on the false continuation;   *)
(* for one branch writing 0x01 on true and 0x02 on false the root has two    *)
(* 4-byte slots linked to blocks with content [0x01] and [0x02].  Stated     *)
(* for the first compile call of an engine.                                  *)
C5_BranchSlots ==
  (Returned /\ Deterministic(func) /\ ncalls = 1) =>
     /\ \A i \in 1..Len(brlog) :
           LET e == brlog[i]
               O == blocks[e.owner]
               slot == IF e.value = "T" THEN e.ofs ELSE e.ofs + pointer_size
           IN /\ Len(O.buff) >= e.ofs + 2 * pointer_size
              /\ SubSeq(O.buff, e.ofs + 1, e.ofs + 2 * pointer_size)
                   = Zeros(2 * pointer_size)
              /\ { e.ofs, e.ofs + pointer_size } \subseteq DOMAIN O.jumps
              /\ O.jumps[e.ofs] # O.jumps[e.ofs + pointer_size]
              /\ O.jumps[slot] = e.target
              /\ IsPrefix(e.bytes, blocks[e.target].buff)
     /\ func = "r_one" =>
           LET root == blocks[ret]
           IN /\ root.buff = Zeros(2 * pointer_size)
              /\ DOMAIN root.jumps = { 0, pointer_size }
              /\ blocks[root.jumps[0]].buff = << 1 >>
              /\ blocks[root.jumps[pointer_size]].buff = << 2 >>

(* C6, as amended: within one compile call, any two call sites that invoke   *)
(* the identical subroutine while the DecisionContext is the same link       *)
(* their placeholder slots to one and the same block; call sites of the      *)
(* subroutine reached in different contexts get different blocks.            *)
C6_SharedPerContext ==
  /\ \A c, d \in calllog :
        c.sub = d.sub => (c.ctx = d.ctx <=> c.target = d.target)
  /\ Returned =>
        \A c \in calllog :
           /\ c.ofs \in DOMAIN blocks[c.owner].jumps
           /\ blocks[c.owner].jumps[c.ofs] = c.target

\* two call sites of one subroutine in one context have been compiled
C6_Witness ==
  /\ Returned
  /\ \E c, d \in calllog : c # d /\ c.sub = d.sub /\ c.ctx = d.ctx

(* C6 as claimed: any two call sites that invoke the identical subroutine    *)
(* link their slots to one and the same block, whatever context each is in.  *)
C6_SharedWhateverContext ==
  \A c, d \in calllog : c.sub = d.sub => c.target = d.target

(* C7: two blocks are equal exactly when their contents have the same        *)
(* length, every byte outside placeholder regions matches, and at every      *)
(* placeholder region both blocks are linked to blocks that are equal.       *)
C7_EqualityIsSimilarity ==
  pc = "idle" =>
     \A a, b \in 1..Len(blocks) :
        (Closed(blocks, a) /\ Closed(blocks, b)) =>
           (BlockEq(blocks, a, b) <=> Similar(blocks, a, b))

(* C8: in phase 2, when the routine calls branch after all recorded          *)
(* decisions of the path being replayed have been consumed, compile exits    *)
(* with a failure: no decision is served, the replay is not continued and    *)
(* no root block is returned.                                                *)
DivergedBranch ==
  /\ state = STATE_COMPILING
  /\ Running
  /\ Instr.op = "branch"
  /\ ~(branch_id < Len(current_path))

C8_DivergenceIsFatal ==
  [][ DivergedBranch =>
        /\ pc' = "idle"
        /\ outcome' \notin { "none", "returned" }
        /\ ret' = 0
        /\ served' = served
        /\ frames' = << >>
        /\ replayed' = replayed
        /\ it' = it ]_vars

\* compile has exited on a diverged branch call with blocks still open
C8_Witness ==
  pc = "idle" /\ outcome = "NewBranch" /\ ret = 0 /\ stack # << >>

(* C9: no compile call exits by propagating the internal escape signal.     *)
C9_EscapeInvisible == outcome # "NewBranch"

(* C10: if the routine calls loop, compile fails with the unsupported-      *)
(* construct error and at that moment the buffer is empty and no block has   *)
(* been created or given content.                                            *)
C10_NothingWrittenBeforeLoopFails ==
  (pc = "idle" /\ outcome = "NotImplementedError") =>
     /\ buf = << >>
     /\ script_block = 0

-----------------------------------------------------------------------------
\* new_func has run to its end inside an Engine.call of phase 2
CallReturns ==
  /\ state = STATE_COMPILING
  /\ pc = "run"
  /\ frames # << >>
  /\ Last(frames).kind = "call"
  /\ Finished(Last(frames))

(* C11: in phase 2, when call(subroutine) returns, the current block is the  *)
(* block that was current when call was invoked, and the open-block stack    *)
(* and the DecisionContext have the depth they had before the call, also     *)
(* for subroutines that themselves call branch or call.                      *)
C11_CallRestores ==
  [][ CallReturns =>
        /\ current_block' = Last(callers).block
        /\ Len(stack') = Last(callers).depth
        /\ Len(path_stack') = Last(callers).ctx ]_vars

-----------------------------------------------------------------------------
\* the block state_blocks holds for context key (0: none)
BlockOf(sb, key) ==
  IF \E kv \in sb : kv[1] = key
    THEN (CHOOSE kv \in sb : kv[1] = key)[2]
    ELSE 0

\* the step opens a block: Engine.push has run in phase 2
Opens == state = STATE_COMPILING /\ Len(path_stack') > Len(path_stack)

(* C12: within one compile call block allocation is memoized on the          *)
(* DecisionContext: opening a context for the first time allocates exactly   *)
(* one block, opening it again on any path makes that same block current     *)
(* and allocates nothing, and two different contexts never share a block,    *)
(* nor does any context share the root block.                                *)
C12_MemoOnContext ==
  /\ [](state = STATE_COMPILING =>
          /\ \A kv, kw \in state_blocks : kv[1] = kw[1] <=> kv[2] = kw[2]
          /\ \A kv \in state_blocks : kv[2] # script_block /\ kv[2] \in 1..Len(blocks)
          /\ (pc = "run" /\ BlockOf(state_blocks, path_stack) # 0) =>
                current_block = BlockOf(state_blocks, path_stack))
  /\ [][ Opens =>
           /\ Front(path_stack') = path_stack
           /\ IF BlockOf(state_blocks, path_stack') # 0
                THEN /\ current_block' = BlockOf(state_blocks, path_stack')
                     /\ Len(blocks') = Len(blocks)
                     /\ state_blocks' = state_blocks
                ELSE /\ current_block' = Len(blocks) + 1
                     /\ Len(blocks') = Len(blocks) + 1
                     /\ state_blocks' =
                          state_blocks \cup { << path_stack', current_block' >> } ]_vars

\* one context has been opened on two different paths, to the same block
C12_Witness ==
  /\ state = STATE_COMPILING
  /\ \E i, j \in 1..Len(brlog) :
        /\ brlog[i].run # brlog[j].run
        /\ brlog[i].target = brlog[j].target
        /\ brlog[i].target = BlockOf(state_blocks, path_stack)

-----------------------------------------------------------------------------
\* the routine calls branch in phase 2 and the path holds a decision for it
BranchConsumes ==
  /\ state = STATE_COMPILING
  /\ Running
  /\ Instr.op = "branch"
  /\ branch_id < Len(current_path)

(* C13: a branch call of phase 2 that consumes decision d sets exactly one   *)
(* jump entry, in the block that was current when branch was called: the     *)
(* entry of the true slot if d is true, of the adjacent false slot if d is   *)
(* false, pointing to the opened block.  The entry of the other slot, or     *)
(* its absence, and the jump maps of all other blocks are unchanged.         *)
C13_OneSlotLinked ==
  [][ BranchConsumes =>
        LET d == current_path[branch_id + 1]
            old_block == current_block
            true_ofs == Len(buf)
            false_ofs == Len(buf) + pointer_size
            slot == IF d = "T" THEN true_ofs ELSE false_ofs
            other == IF d = "T" THEN false_ofs ELSE true_ofs
            before == blocks[old_block].jumps
            after == blocks'[old_block].jumps
        IN /\ d \in { "T", "F" }
           /\ blocks'[old_block].buff = buf \o Zeros(2 * pointer_size)
           /\ current_block' = BlockOf(state_blocks', path_stack')
           /\ current_block' # old_block
           /\ DOMAIN after = DOMAIN before \cup { slot }
           /\ after[slot] = current_block'
           /\ \A o \in DOMAIN before \ { slot } : after[o] = before[o]
           /\ other \in DOMAIN after <=> other \in DOMAIN before
           /\ \A b \in 1..Len(blocks) : b # old_block =>
                 blocks'[b].jumps = blocks[b].jumps
           /\ \A b \in (Len(blocks) + 1)..Len(blocks') :
                 DOMAIN blocks'[b].jumps = {} ]_vars

\* a true decision has been consumed: its slot is linked to the opened block
\* and the false slot next to it is not linked
C13_Witness ==
  /\ state = STATE_COMPILING
  /\ \E i \in 1..Len(brlog) :
        LET e == brlog[i]
        IN /\ e.value = "T"
           /\ e.ofs \in DOMAIN blocks[e.owner].jumps
           /\ blocks[e.owner].jumps[e.ofs] = e.target
           /\ (e.ofs + pointer_size) \notin DOMAIN blocks[e.owner].jumps

-----------------------------------------------------------------------------
\* func has just been entered for a path of phase 2
PathStart == state = STATE_COMPILING /\ pc = "run" /\ frames = Start(func)

\* the engine as compile expects it between two paths
AtRoot ==
  /\ stack = << >>
  /\ path_stack = << >>
  /\ current_block = script_block

(* C14: on an engine whose earlier compile calls, if any, succeeded, every   *)
(* path replay of phase 2 starts with an empty buffer, an empty              *)
(* DecisionContext and the root block current; when the routine has          *)
(* returned every block opened during the replay is closed, so the stack     *)
(* and the DecisionContext are empty before the next path starts and when    *)
(* compile returns.                                                          *)
C14_CleanReplays ==
  failures = 0 =>
     /\ PathStart => (buf = << >> /\ AtRoot)
     /\ pc = "replay" =>
           /\ AtRoot
           /\ it > 0 => /\ blocks[script_block].hasbuff
                        /\ \A kv \in state_blocks : blocks[kv[2]].hasbuff
     /\ Returned => (AtRoot /\ ret = script_block)

\* a second compile call has returned after replaying several paths that
\* opened blocks, the first call having succeeded
C14_Witness ==
  /\ Returned
  /\ failures = 0
  /\ ncalls > 1
  /\ Len(replayed) > 1
  /\ \E i \in 1..Len(brlog) : brlog[i].run = Len(replayed)

-----------------------------------------------------------------------------
(* Python runs a compile call to its end: once compile has been called, the  *)
(* next step of the call is taken.  Calling compile is up to the caller.     *)
Step ==
  \/ FindRun
  \/ FindDone
  \/ ReplayRun
  \/ ReplayDone
  \/ RWrite
  \/ RUnknown
  \/ RTestState
  \/ BranchServe
  \/ BranchEscapeDiscover
  \/ BranchEscapeCompile
  \/ RLoop
  \/ RCall
  \/ RCallReturn
  \/ DiscoverReturn
  \/ ReplayReturn

LiveSpec == Spec /\ WF_vars(Step)

\* a path of self.paths without the mark _find_branches puts on an escaped one
Unmark(p) == IF NotEscaped(p) THEN p ELSE Front(p)

\* the while loop of _find_branches has no pending path left
QueueEmpty == pc = "find" /\ ~(path_id < Len(paths))

(* C15: for a routine whose number of branch calls is bounded and whose      *)
(* branch outcomes depend only on position, discovery terminates: the queue  *)
(* of pending paths becomes empty, each pending path having been executed    *)
(* exactly once; that is 2^(k+1) - 1 executions of the routine when every    *)
(* execution makes exactly k branch calls.                                   *)
C15_DiscoveryTerminates ==
  /\ [](state = STATE_BUILDING_BRANCHES =>
          /\ path_id <= Len(paths)
          /\ Len(explored) = (IF pc = "run" THEN path_id + 1 ELSE path_id)
          /\ \A i \in 1..Len(explored) : explored[i] = Unmark(paths[i])
          /\ \A i, j \in 1..Len(explored) : i # j => explored[i] # explored[j]
          /\ QueueEmpty =>
                \A k \in BranchCounts(CodeOf(func), 1) :
                   ExactlyK(func, k) => Len(explored) = 2 ^ (k + 1) - 1)
  /\ (state = STATE_BUILDING_BRANCHES /\ NoLoop(func)) ~> QueueEmpty

\* discovery has emptied its queue for a routine with two branch calls on
\* every execution, after seven executions
C15_Witness ==
  /\ QueueEmpty
  /\ state = STATE_BUILDING_BRANCHES
  /\ ExactlyK(func, 2)
  /\ Len(explored) = 7
  /\ Len(paths) = 7

-----------------------------------------------------------------------------
(* C16: when compile returns, in every block reachable from the root every   *)
(* key o of the jump map is the offset of a placeholder slot lying wholly    *)
(* inside the content: 0 <= o, o + pointer_size <= length of the content,    *)
(* the pointer_size bytes at o are zero, and no two slots of the block       *)
(* overlap.                                                                  *)
C16_SlotsInsideContent ==
  Returned =>
     \A b \in Reach(blocks, {}, { ret }) :
        LET B == blocks[b]
        IN \A o \in DOMAIN B.jumps :
              /\ 0 <= o
              /\ o + pointer_size <= Len(B.buff)
              /\ \A i \in (o + 1)..(o + pointer_size) :
                    i <= Len(B.buff) => B.buff[i] = 0
              /\ \A q \in DOMAIN B.jumps :
                    q # o => (q + pointer_size <= o \/ o + pointer_size <= q)

-----------------------------------------------------------------------------
(* C17: if the routine calls loop, compile fails with the unsupported-        *)
(* construct error before any exploration proceeds: at the moment of failure *)
(* no continuation path has been enqueued and no pending path other than     *)
(* the initial empty path has been executed, wherever the loop call sits.    *)
C17_LoopFailsBeforeExploring ==
  (pc = "idle" /\ outcome = "NotImplementedError") =>
     /\ paths = << << >> >>
     /\ explored = << << >> >>
     /\ path_id = 0

-----------------------------------------------------------------------------
\* the blocks the jump map of block b leads to
Targets(bs, b) == { bs[b].jumps[o] : o \in DOMAIN bs[b].jumps }

(* C18: the jump graph over the blocks is acyclic: no block is reachable     *)
(* from itself along one or more jump edges.  Every jump edge of a block     *)
(* opened in the compile call leads from the block of a DecisionContext to   *)
(* the block of that context extended by one token, and on an engine         *)
(* without failed compile calls the edges of the root lead to blocks of      *)
(* contexts of one token.  So the recursive comparison of blocks ends.       *)
C18_JumpGraphAcyclic ==
  /\ [](/\ \A b \in 1..Len(blocks) :
             b \notin Reach(blocks, {}, Targets(blocks, b))
        /\ \A kv \in state_blocks :
              \A t \in Targets(blocks, kv[2]) :
                 \E kw \in state_blocks :
                    /\ kw[2] = t
                    /\ Len(kw[1]) = Len(kv[1]) + 1
                    /\ Front(kw[1]) = kv[1]
        /\ (failures = 0 /\ script_block # 0) =>
              \A t \in Targets(blocks, script_block) :
                 \E kw \in state_blocks : kw[2] = t /\ Len(kw[1]) = 1
        /\ pc = "idle" =>
              \A a, b \in 1..Len(blocks) :
                 (Closed(blocks, a) /\ Closed(blocks, b)) =>
                    BlockEq(blocks, a, b) \in BOOLEAN)
  /\ [][ \A b \in 1..Len(blocks) :
            \A t \in Targets(blocks', b) \ Targets(blocks, b) :
               /\ b = current_block
               /\ t = current_block'
               /\ path_stack' = Append(path_stack, Last(path_stack'))
               /\ t = BlockOf(state_blocks', path_stack') ]_vars

\* compile has returned a graph in which a block of a context of two tokens
\* is reached from the root
C18_Witness ==
  /\ Returned
  /\ \E kv \in state_blocks :
        /\ Len(kv[1]) = 2
        /\ kv[2] \in Reach(blocks, {}, { ret })
        /\ \E kw \in state_blocks : kv[2] \in Targets(blocks, kw[2])

-----------------------------------------------------------------------------
(* C19: block equality is symmetric: for any two blocks a and b whose        *)
(* content is set, a == b gives the same result as b == a, also when one     *)
(* block has a jump entry at an offset where the other has none.             *)
C19_EqualitySymmetric ==
  \A a, b \in 1..Len(blocks) :
     (Closed(blocks, a) /\ Closed(blocks, b)) =>
        (BlockEq(blocks, a, b) <=> BlockEq(blocks, b, a))

(* C20: whenever the run state is Idle, the open-block stack and the         *)
(* DecisionContext are both empty, also after a compile call that failed     *)
(* part-way through phase 2, so that a later compile on the same engine      *)
(* starts every path replay with the new root block current.                 *)
C20_IdleIsClean ==
  /\ state = STATE_IDLE => (stack = << >> /\ path_stack = << >>)
  /\ PathStart => current_block = script_block

=============================================================================
